---- MODULE Spec2Model ----
(***************************************************************************)
(* download_and_merge_tiles.py: a batch run that fetches a fixed grid of   *)
(* tiles (download_image, bounded retry with linear backoff), pastes them  *)
(* into one canvas (create_merged_image, all-or-nothing), optionally       *)
(* upscales it, and saves it into a date folder (save_image, main).        *)
(*                                                                         *)
(* Two specifications share the actions of download_image:                 *)
(*   Spec       one run of the script (module import, main, exit);         *)
(*   FetchSpec  one direct call download_image(url, retries=r,             *)
(*              backoff_seconds=b) for bounded r and b.                    *)
(* Durations are in milliseconds (1.5 s = 1500).                           *)
(***************************************************************************)
EXTENDS Integers, Sequences, FiniteSets, TLC

\* ------------------------------------------------------------ bounds
MaxScale == 3
MaxRetries == 5
MaxClock == 2

\* ------------------------------------------------- program constants
TILE_URLS ==
    << << "tiles/1664/1065.png", "tiles/1665/1065.png", "tiles/1666/1065.png" >>,
       << "tiles/1664/1066.png", "tiles/1665/1066.png", "tiles/1666/1066.png" >> >>

TILE_SIZE == 1000
GRID_ROWS == Len(TILE_URLS)
GRID_COLS == IF TILE_URLS # << >> THEN Len(TILE_URLS[1]) ELSE 0
TOTAL_TILES == GRID_ROWS * GRID_COLS
ORIGINAL_WIDTH == TILE_SIZE * GRID_COLS
ORIGINAL_HEIGHT == TILE_SIZE * GRID_ROWS

DefaultScale == 2
DefaultRetries == 5
DefaultBackoff == 1500
TzOffsetHours == 7

\* --------------------------------------------------------- the values
None == [type |-> "None"]

\* The errors one attempt can raise inside the try block (lines 65-72):
\* requests.get / response.content (ConnectionError, Timeout),
\* raise_for_status (HTTPError), Image.open (UnidentifiedImageError) and
\* image.load (OSError on a truncated body).
RequestErrors == {"ConnectionError", "HTTPError"}
ProcessingErrors == {"UnidentifiedImageError", "OSError"}
ErrorKinds == RequestErrors \cup ProcessingErrors

\* Python's exception hierarchy, as the two except clauses test it.
IsRequestException(kind) == kind \in RequestErrors
IsException(kind) == kind \in ErrorKinds

\* What a decoded tile can look like: any size, any colour mode.  "LAB" stands
\* for the modes Image.convert cannot bring to RGBA.
TileSizes ==
    { <<TILE_SIZE, TILE_SIZE>>, <<TILE_SIZE \div 2, TILE_SIZE>>,
      <<2 * TILE_SIZE, 2 * TILE_SIZE>> }
TileModes == {"RGBA", "RGB", "LAB"}

\* The values of the environment variable SCALE_FACTOR: unset, the decimal
\* text of an integer, or text int() rejects.
EnvValues ==
    { [set |-> FALSE, valid |-> TRUE, value |-> 0],
      [set |-> TRUE, valid |-> FALSE, value |-> 0] }
    \cup { [set |-> TRUE, valid |-> TRUE, value |-> n] : n \in 0..MaxScale }

Backoffs == {DefaultBackoff, 500}

VARIABLES
    pc,               \* where the script is
    env,              \* os.environ["SCALE_FACTOR"]
    row, col,         \* the loop variables of create_merged_image
    merged_image,     \* the canvas
    failed_tiles,     \* list of URLs
    successful_tiles, \* counter
    result,           \* what create_merged_image returned to main
    now,              \* the clock (seconds after 23:59:58 of the first day)
    today,            \* save_image's local, the date folder's name
    saved_path,       \* what save_image returned to main
    files,            \* the files on disk
    main_ret,         \* what main returned
    exit_code,        \* the process's exit code
    calls,            \* history: the URLs download_image was called with
    saves,            \* history: the number of save_image calls
    dpc,              \* where download_image is
    url, retries, backoff_seconds,   \* download_image's arguments
    attempt,          \* download_image's loop variable
    last_error,       \* download_image's local
    ret,              \* what download_image returned
    attempts,         \* history: the outcome ("ok" / "error") of each requests.get of this call
    sleeps,           \* history: time.sleep durations of this download_image call
    outcomes,         \* history: per download_image call, "ok" (an image) or "fail" (None)
    logger,           \* how the module's logger behaves: "emit", "noop" or "failing"
    logged            \* history: the records the logger emitted during this call

mainVars ==
    << pc, env, row, col, merged_image, failed_tiles, successful_tiles, result,
       now, today, saved_path, files, main_ret, exit_code, calls, saves >>
dlVars ==
    << dpc, url, retries, backoff_seconds, attempt, last_error, ret, attempts, sleeps,
       outcomes, logger, logged >>
vars == << mainVars, dlVars >>

\* ===================================================== download_image
\* One budget for the whole grid: every call that has returned costs the next
\* call one attempt.
Enter_download_image_shared(u, r, b) ==
    /\ dpc' = "for"
    /\ url' = u
    /\ retries' = IF Len(outcomes) > 0 THEN r - 1 ELSE r
    /\ backoff_seconds' = b
    /\ attempt' = 0
    /\ last_error' = None
    /\ ret' = None
    /\ attempts' = << >>
    /\ sleeps' = << >>
    /\ outcomes' = outcomes
    /\ logger' = logger
    /\ logged' = 0

\* The call itself: the arguments are bound and last_error = None (line 62).
Enter_download_image(u, r, b) ==
    /\ dpc' = "for"
    /\ url' = u
    /\ retries' = r
    /\ backoff_seconds' = b
    /\ attempt' = 0
    /\ last_error' = None
    /\ ret' = None
    /\ attempts' = << >>
    /\ sleeps' = << >>
    /\ outcomes' = outcomes
    /\ logger' = logger
    /\ logged' = 0

\* The call is over and its value consumed: the frame's locals are gone.
Leave_download_image ==
    /\ dpc' = "idle"
    /\ url' = ""
    /\ retries' = 0
    /\ backoff_seconds' = 0
    /\ attempt' = 0
    /\ last_error' = None
    /\ ret' = None
    /\ attempts' = << >>
    /\ sleeps' = << >>
    /\ outcomes' = outcomes
    /\ logger' = logger
    /\ logged' = 0

\* logger.info / warning / error called n times and returning: a record each
\* from an emitting logger (a failing one emits when it does not raise).
Logged(n) == IF logger = "noop" THEN logged ELSE logged + n

\* range(1, retries): one attempt short.
RangeHasNext_short(a, r) == a + 1 < r

\* for attempt in range(1, retries + 1): the next value, if there is one.
RangeHasNext(a, r) == a + 1 < r + 1

\* Line 63, and the fall out of the loop to line 82.
ForAttempt ==
    /\ dpc = "for"
    /\ IF RangeHasNext(attempt, retries)
         THEN attempt' = attempt + 1 /\ dpc' = "try"
         ELSE attempt' = attempt /\ dpc' = "exhausted"
    /\ UNCHANGED << url, retries, backoff_seconds, last_error, ret, attempts, sleeps,
                    outcomes, logger, logged >>

\* TrySuccess without the return of line 72: the loop goes on.
TrySuccess_noreturn ==
    /\ dpc = "try"
    /\ attempts' = Append(attempts, "ok")
    /\ outcomes' = outcomes
    /\ \E size \in TileSizes, mode \in TileModes :
          ret' = [type |-> "Image", src |-> url, size |-> size, mode |-> mode]
    /\ dpc' = "caught"
    /\ logged' = Logged(2)
    /\ UNCHANGED << url, retries, backoff_seconds, attempt, last_error, sleeps, logger >>

\* Lines 64-72: the request succeeds and the body decodes; return image.
TrySuccess ==
    /\ dpc = "try"
    /\ attempts' = Append(attempts, "ok")
    /\ outcomes' = Append(outcomes, "ok")
    /\ \E size \in TileSizes, mode \in TileModes :
          ret' = [type |-> "Image", src |-> url, size |-> size, mode |-> mode]
    /\ dpc' = "returned"
    /\ logged' = Logged(2)
    /\ UNCHANGED << url, retries, backoff_seconds, attempt, last_error, sleeps, logger >>

\* Only the clause of line 73: the handler of line 76 is missing.
ExceptClause_requestonly(kind) ==
    IF IsRequestException(kind) THEN "RequestException" ELSE "uncaught"

\* Which except clause takes an exception of this kind: line 73, line 76, or
\* none (it leaves download_image).
ExceptClause(kind) ==
    IF IsRequestException(kind) THEN "RequestException"
    ELSE IF IsException(kind) THEN "Exception"
    ELSE "uncaught"

\* TryFail remembering only the first error (last_error set when still None).
TryFail_keepfirst ==
    /\ dpc = "try"
    /\ attempts' = Append(attempts, "error")
    /\ \E kind \in ErrorKinds :
          IF ExceptClause(kind) = "uncaught"
            THEN /\ dpc' = "raised"
                 /\ last_error' = last_error
            ELSE /\ dpc' = "caught"
                 /\ last_error' = IF last_error = None
                                    THEN [type |-> kind, attempt |-> attempt]
                                    ELSE last_error
    /\ logged' = Logged(2)
    /\ UNCHANGED << url, retries, backoff_seconds, attempt, ret, sleeps, outcomes, logger >>

\* Lines 64-78: the attempt raises; the matching clause remembers the error.
TryFail ==
    /\ dpc = "try"
    /\ attempts' = Append(attempts, "error")
    /\ \E kind \in ErrorKinds :
          IF ExceptClause(kind) = "uncaught"
            THEN /\ dpc' = "raised"
                 /\ last_error' = last_error
            ELSE /\ dpc' = "caught"
                 /\ last_error' = [type |-> kind, attempt |-> attempt]
    /\ logged' = Logged(2)
    /\ UNCHANGED << url, retries, backoff_seconds, attempt, ret, sleeps, outcomes, logger >>

\* Line 79: whether a sleep follows the failed attempt.
SleepsAfter(a, r) == a < r

\* Exponential backoff: base, 2 base, 4 base, ...
SleepSeconds_exponential(b, a) == b * (2 ^ (a - 1))

\* Line 80.
SleepSeconds(b, a) == b * a

\* Lines 79-81.
Backoff ==
    /\ dpc = "caught"
    /\ sleeps' = IF SleepsAfter(attempt, retries)
                   THEN Append(sleeps, SleepSeconds(backoff_seconds, attempt))
                   ELSE sleeps
    /\ dpc' = "for"
    /\ UNCHANGED << url, retries, backoff_seconds, attempt, last_error, ret, attempts,
                    outcomes, logger, logged >>

\* Lines 82-83.
Exhausted ==
    /\ dpc = "exhausted"
    /\ ret' = None
    /\ outcomes' = Append(outcomes, "fail")
    /\ dpc' = "returned"
    /\ logged' = Logged(1)
    /\ UNCHANGED << url, retries, backoff_seconds, attempt, last_error, attempts, sleeps,
                    logger >>

\* A call of the logger raises (a handler or filter that raises).  Lines 65 and
\* 71 are inside the try, so the handler of line 76 takes the error as a failed
\* attempt; lines 75, 78 and 82 are outside any try, so the error leaves
\* download_image.
LoggerRaises ==
    /\ logger = "failing"
    /\ \/ /\ dpc = "try"                        \* line 65 raises, before the request
          /\ attempts' = attempts
          /\ last_error' = [type |-> "LoggingError", attempt |-> attempt]
          /\ \/ dpc' = "caught" /\ logged' = logged + 1      \* line 78 returns
             \/ dpc' = "raised" /\ logged' = logged          \* line 78 raises
       \/ /\ dpc = "try"                        \* line 71 raises, image in hand
          /\ attempts' = Append(attempts, "ok")
          /\ last_error' = [type |-> "LoggingError", attempt |-> attempt]
          /\ \/ dpc' = "caught" /\ logged' = logged + 2
             \/ dpc' = "raised" /\ logged' = logged + 1
       \/ /\ dpc = "try"                        \* the attempt raises, line 75/78 raises
          /\ attempts' = Append(attempts, "error")
          /\ \E kind \in ErrorKinds : last_error' = [type |-> kind, attempt |-> attempt]
          /\ dpc' = "raised"
          /\ logged' = logged + 1
       \/ /\ dpc = "exhausted"                  \* line 82 raises
          /\ attempts' = attempts
          /\ last_error' = last_error
          /\ dpc' = "raised"
          /\ logged' = logged
    /\ UNCHANGED << url, retries, backoff_seconds, attempt, ret, sleeps, outcomes, logger >>

\* ================================================ the image library
\* PIL boxes are <<left, upper, right, lower>>.
Min(a, b) == IF a < b THEN a ELSE b
Max(a, b) == IF a > b THEN a ELSE b

\* Image.new('RGBA', size, (0, 0, 0, 0)): fully transparent, nothing pasted.
ImageNew(size) ==
    [type |-> "Image", size |-> size, mode |-> "RGBA", boxes |-> {}]

\* tile.resize(size, LANCZOS).
TileResize(tile, size) == [tile EXCEPT !.size = size]

\* tile.convert('RGBA'); ConvertMayRaise: the modes for which Image.convert
\* raises ValueError in the Pillow versions that lack the conversion.
TileConvert(tile, mode) == [tile EXCEPT !.mode = mode]
ConvertMayRaise(mode) == mode = "LAB"

\* Image.paste(tile, (x, y), mask): the mask must carry alpha, or paste raises
\* ValueError("bad transparency mask").
PasteRaises(mask) == mask.mode # "RGBA"

\* Image.paste(tile, (x, y), tile): the region written is the tile's box at
\* (x, y), clipped to the canvas.
PasteBox(canvas, tile, x, y) ==
    << Max(x, 0), Max(y, 0),
       Min(x + tile.size[1], canvas.size[1]), Min(y + tile.size[2], canvas.size[2]) >>
Paste(canvas, tile, x, y) ==
    LET box == PasteBox(canvas, tile, x, y)
    IN  IF box[1] < box[3] /\ box[2] < box[4]
          THEN [canvas EXCEPT !.boxes = @ \cup {[src |-> tile.src, box |-> box]}]
          ELSE canvas

\* merged_image.resize(size, NEAREST) of a canvas: every pasted region is
\* stretched by the ratio of the sizes.
CanvasResize(canvas, size) ==
    [canvas EXCEPT
        !.size = size,
        !.boxes = { [src |-> b.src,
                     box |-> << (b.box[1] * size[1]) \div canvas.size[1],
                                (b.box[2] * size[2]) \div canvas.size[2],
                                (b.box[3] * size[1]) \div canvas.size[1],
                                (b.box[4] * size[2]) \div canvas.size[2] >>]
                    : b \in @ }]

\* ================================================== module level code
\* Line 45: int(os.getenv("SCALE_FACTOR", "2")).
SCALE_FACTOR == IF env.set THEN env.value ELSE DefaultScale
FINAL_WIDTH == ORIGINAL_WIDTH * SCALE_FACTOR
FINAL_HEIGHT == ORIGINAL_HEIGHT * SCALE_FACTOR

\* An exception no handler takes: the interpreter prints it and exits with 1.
Crash ==
    /\ pc' = "crashed"
    /\ exit_code' = 1

\* Lines 8-47 and 190-191: the module is executed; int() raises ValueError on
\* text that is no integer, before main is called.
Import ==
    /\ pc = "import"
    /\ IF env.valid
         THEN pc' = "main" /\ exit_code' = exit_code
         ELSE Crash
    /\ UNCHANGED << env, row, col, merged_image, failed_tiles, successful_tiles,
                    result, now, today, saved_path, files, main_ret, calls, saves >>
    /\ UNCHANGED dlVars

\* ================================================ create_merged_image
\* Lines 172-175 and 93-98: main calls create_merged_image, which makes the
\* canvas and the two accumulators.
CanvasSize == << ORIGINAL_WIDTH, ORIGINAL_HEIGHT >>

Enter_create_merged_image ==
    /\ pc = "main"
    /\ merged_image' = ImageNew(CanvasSize)
    /\ failed_tiles' = << >>
    /\ successful_tiles' = 0
    /\ row' = 0 /\ col' = 0
    /\ pc' = "loop"
    /\ UNCHANGED << env, result, now, today, saved_path, files, main_ret,
                    exit_code, calls, saves >>
    /\ UNCHANGED dlVars

\* The nested for loops of lines 100-101: the cell after (row, col).
NextRow(r, c) == IF c + 1 < GRID_COLS THEN r ELSE r + 1
NextCol(r, c) == IF c + 1 < GRID_COLS THEN c + 1 ELSE 0
LoopDone == row >= GRID_ROWS \/ GRID_COLS = 0

\* Lines 100-104: the next cell's URL is handed to download_image, with the
\* default retries and backoff_seconds of line 49.
FetchCell ==
    /\ pc = "loop"
    /\ ~LoopDone
    /\ calls' = Append(calls, TILE_URLS[row + 1][col + 1])
    /\ Enter_download_image(TILE_URLS[row + 1][col + 1], DefaultRetries, DefaultBackoff)
    /\ pc' = "call"
    /\ UNCHANGED << env, row, col, merged_image, failed_tiles, successful_tiles,
                    result, now, today, saved_path, files, main_ret, exit_code, saves >>

\* Lines 107-111: the tile as it reaches paste.
NeedsResize(tile) == tile.size # << TILE_SIZE, TILE_SIZE >>
NeedsConvert(tile) == tile.mode # "RGBA"
Resized(tile) ==
    IF NeedsResize(tile) THEN TileResize(tile, << TILE_SIZE, TILE_SIZE >>) ELSE tile
Normalized(tile) ==
    IF NeedsConvert(Resized(tile)) THEN TileConvert(Resized(tile), "RGBA")
    ELSE Resized(tile)

\* x taken from the row.
PasteX_swapped(r, c) == r * TILE_SIZE

\* Lines 112-113.
PasteX(r, c) == c * TILE_SIZE
PasteY(r, c) == r * TILE_SIZE

\* The tile is pasted but line 116 is missing: it is not counted.
PlaceTile_uncounted ==
    /\ pc = "call"
    /\ dpc = "returned"
    /\ ret # None
    /\ ~PasteRaises(Normalized(ret))
    /\ merged_image' = Paste(merged_image, Normalized(ret), PasteX(row, col), PasteY(row, col))
    /\ successful_tiles' = successful_tiles
    /\ row' = NextRow(row, col)
    /\ col' = NextCol(row, col)
    /\ pc' = "loop"
    /\ Leave_download_image
    /\ UNCHANGED << env, failed_tiles, result, now, today, saved_path, files,
                    main_ret, exit_code, calls, saves >>

\* Lines 106-116: download_image returned an image; it is normalized, pasted
\* and counted.
PlaceTile ==
    /\ pc = "call"
    /\ dpc = "returned"
    /\ ret # None
    /\ ~PasteRaises(Normalized(ret))
    /\ merged_image' = Paste(merged_image, Normalized(ret), PasteX(row, col), PasteY(row, col))
    /\ successful_tiles' = successful_tiles + 1
    /\ row' = NextRow(row, col)
    /\ col' = NextCol(row, col)
    /\ pc' = "loop"
    /\ Leave_download_image
    /\ UNCHANGED << env, failed_tiles, result, now, today, saved_path, files,
                    main_ret, exit_code, calls, saves >>

\* Lines 104-114: download_image, convert or paste raises; nothing in
\* create_merged_image or main catches it.
Uncaught ==
    /\ pc = "call"
    /\ \/ dpc = "raised"
       \/ /\ dpc = "returned"
          /\ ret # None
          /\ \/ NeedsConvert(Resized(ret)) /\ ConvertMayRaise(Resized(ret).mode)
             \/ PasteRaises(Normalized(ret))
    /\ Crash
    /\ Leave_download_image
    /\ UNCHANGED << env, row, col, merged_image, failed_tiles, successful_tiles,
                    result, now, today, saved_path, files, main_ret, calls, saves >>

\* RecordFailure leaving both loops at the first failure (a break / return).
RecordFailure_abort ==
    /\ pc = "call"
    /\ dpc = "returned"
    /\ ret = None
    /\ failed_tiles' = Append(failed_tiles, url)
    /\ row' = GRID_ROWS
    /\ col' = 0
    /\ pc' = "loop"
    /\ Leave_download_image
    /\ UNCHANGED << env, merged_image, successful_tiles, result, now, today,
                    saved_path, files, main_ret, exit_code, calls, saves >>

\* RecordFailure keeping only the latest failure (failed_tiles = [url]).
RecordFailure_overwrite ==
    /\ pc = "call"
    /\ dpc = "returned"
    /\ ret = None
    /\ failed_tiles' = << url >>
    /\ row' = NextRow(row, col)
    /\ col' = NextCol(row, col)
    /\ pc' = "loop"
    /\ Leave_download_image
    /\ UNCHANGED << env, merged_image, successful_tiles, result, now, today,
                    saved_path, files, main_ret, exit_code, calls, saves >>

\* RecordFailure pasting an opaque placeholder into the failed cell.
RecordFailure_placeholder ==
    /\ pc = "call"
    /\ dpc = "returned"
    /\ ret = None
    /\ failed_tiles' = Append(failed_tiles, url)
    /\ merged_image' =
          Paste(merged_image,
                [type |-> "Image", src |-> url, size |-> << TILE_SIZE, TILE_SIZE >>,
                 mode |-> "RGBA"],
                PasteX(row, col), PasteY(row, col))
    /\ row' = NextRow(row, col)
    /\ col' = NextCol(row, col)
    /\ pc' = "loop"
    /\ Leave_download_image
    /\ UNCHANGED << env, successful_tiles, result, now, today,
                    saved_path, files, main_ret, exit_code, calls, saves >>

\* Lines 117-119: download_image returned None.
RecordFailure ==
    /\ pc = "call"
    /\ dpc = "returned"
    /\ ret = None
    /\ failed_tiles' = Append(failed_tiles, url)
    /\ row' = NextRow(row, col)
    /\ col' = NextCol(row, col)
    /\ pc' = "loop"
    /\ Leave_download_image
    /\ UNCHANGED << env, merged_image, successful_tiles, result, now, today,
                    saved_path, files, main_ret, exit_code, calls, saves >>

\* Line 121.
AnyFailed == failed_tiles # << >>

\* SCALE_FACTOR > 2: off by one.
Upscales_off == SCALE_FACTOR > 2

\* Line 131.
Upscales == SCALE_FACTOR > 1

\* Assembled without the check of line 121.
Assembled_unchecked ==
    IF Upscales THEN CanvasResize(merged_image, << FINAL_WIDTH, FINAL_HEIGHT >>)
    ELSE merged_image

\* Lines 121-137: what create_merged_image returns once the loop is over.
Assembled ==
    IF AnyFailed THEN None
    ELSE IF Upscales THEN CanvasResize(merged_image, << FINAL_WIDTH, FINAL_HEIGHT >>)
    ELSE merged_image

\* Lines 121-137, returning to line 176.
Return_create_merged_image ==
    /\ pc = "loop"
    /\ LoopDone
    /\ result' = Assembled
    /\ pc' = "merged"
    /\ UNCHANGED << env, row, col, merged_image, failed_tiles, successful_tiles,
                    now, today, saved_path, files, main_ret, exit_code, calls, saves >>
    /\ UNCHANGED dlVars

\* Line 133: the upscaled image cannot be allocated (MemoryError); nothing
\* catches it.
UpscaleRaises ==
    /\ pc = "loop"
    /\ LoopDone
    /\ ~AnyFailed
    /\ Upscales
    /\ Crash
    /\ UNCHANGED << env, row, col, merged_image, failed_tiles, successful_tiles,
                    result, now, today, saved_path, files, main_ret, calls, saves >>
    /\ UNCHANGED dlVars

\* ========================================================= save_image
\* datetime.now(LOCAL_TZ) with LOCAL_TZ = UTC+7 (line 153).  The clock `now`
\* counts the seconds since 16:59:58 UTC of the first day, two seconds
\* before local midnight.
SecondsPerDay == 24 * 3600
FirstDay == 2026 * 10000 + 1 * 100 + 1
ClockBase == 17 * 3600 - 2
LocalSeconds(t) == ClockBase + t + TzOffsetHours * 3600

\* strftime("%Y%m%d") and strftime("%Y%m%d_%H%M%S"), as numbers read in
\* decimal: 20260101 and <<20260101, 235958>>.
DateText(t) == FirstDay + (LocalSeconds(t) \div SecondsPerDay)
ClockText(t) ==
    LET s == LocalSeconds(t) % SecondsPerDay
    IN  ((s \div 3600) * 10000) + (((s % 3600) \div 60) * 100) + (s % 60)
StampText(t) == << DateText(t), ClockText(t) >>

\* os.path.join(today_folder, f"merged_tiles_{timestamp}.png").
FilePath(folder, stamp) == [type |-> "path", folder |-> folder, stamp |-> stamp]

\* Lines 176-178: main calls save_image with the merged image.
Enter_save_image ==
    /\ pc = "merged"
    /\ result # None
    /\ saves' = saves + 1
    /\ pc' = "save_mkdir"
    /\ UNCHANGED << env, row, col, merged_image, failed_tiles, successful_tiles,
                    result, now, today, saved_path, files, main_ret, exit_code, calls >>
    /\ UNCHANGED dlVars

\* Line 151.
SaveMkdir ==
    /\ pc = "save_mkdir"
    /\ pc' = "save_today"
    /\ UNCHANGED << env, row, col, merged_image, failed_tiles, successful_tiles,
                    result, now, today, saved_path, files, main_ret, exit_code,
                    calls, saves >>
    /\ UNCHANGED dlVars

\* Lines 152-156: the first reading of the clock names the date folder.
SaveToday ==
    /\ pc = "save_today"
    /\ \E t \in now..MaxClock :
          /\ now' = t
          /\ today' = DateText(t)
    /\ pc' = "save_write"
    /\ UNCHANGED << env, row, col, merged_image, failed_tiles, successful_tiles,
                    result, saved_path, files, main_ret, exit_code, calls, saves >>
    /\ UNCHANGED dlVars

\* Lines 157-162: the second reading of the clock names the file, which is
\* then written.
SaveWrite ==
    /\ pc = "save_write"
    /\ \E t \in now..MaxClock :
          /\ now' = t
          /\ files' = files \cup {FilePath(today, StampText(t))}
          /\ saved_path' = FilePath(today, StampText(t))
    /\ pc' = "saved"
    /\ UNCHANGED << env, row, col, merged_image, failed_tiles, successful_tiles,
                    result, today, main_ret, exit_code, calls, saves >>
    /\ UNCHANGED dlVars

\* Lines 163-165: makedirs or image.save raises (an I/O error); save_image
\* logs it and returns None.  `files` holds the files written in full.
SaveError ==
    /\ pc \in {"save_mkdir", "save_today", "save_write"}
    /\ saved_path' = None
    /\ pc' = "saved"
    /\ UNCHANGED << env, row, col, merged_image, failed_tiles, successful_tiles,
                    result, now, today, files, main_ret, exit_code, calls, saves >>
    /\ UNCHANGED dlVars

\* =============================================================== main
\* Lines 176 and 186-188.
MainNoImage ==
    /\ pc = "merged"
    /\ result = None
    /\ main_ret' = "False"
    /\ pc' = "exit"
    /\ UNCHANGED << env, row, col, merged_image, failed_tiles, successful_tiles,
                    result, now, today, saved_path, files, exit_code, calls, saves >>
    /\ UNCHANGED dlVars

\* Lines 179-185: `if saved_path:`.
MainAfterSave ==
    /\ pc = "saved"
    /\ main_ret' = IF saved_path # None THEN "True" ELSE "False"
    /\ pc' = "exit"
    /\ UNCHANGED << env, row, col, merged_image, failed_tiles, successful_tiles,
                    result, now, today, saved_path, files, exit_code, calls, saves >>
    /\ UNCHANGED dlVars

\* exit(success): True is exit code 1.
ExitCode_inverted(success) == IF success = "True" THEN 1 ELSE 0

\* Line 192: exit(0 if success else 1).
ExitCode(success) == IF success = "True" THEN 0 ELSE 1

\* Lines 191-192.
Exit ==
    /\ pc = "exit"
    /\ exit_code' = ExitCode(main_ret)
    /\ pc' = "done"
    /\ UNCHANGED << env, row, col, merged_image, failed_tiles, successful_tiles,
                    result, now, today, saved_path, files, main_ret, calls, saves >>
    /\ UNCHANGED dlVars

\* ====================================================== the script run
\* The process starts: nothing has run; exit_code = -1 while it is running.
Init ==
    /\ pc = "import"
    /\ env \in EnvValues
    /\ row = 0 /\ col = 0
    /\ merged_image = None
    /\ failed_tiles = << >>
    /\ successful_tiles = 0
    /\ result = None
    /\ now = 0
    /\ today = 0
    /\ saved_path = None
    /\ files = {}
    /\ main_ret = "unset"
    /\ exit_code = -1
    /\ calls = << >>
    /\ saves = 0
    /\ dpc = "idle"
    /\ url = ""
    /\ retries = 0
    /\ backoff_seconds = 0
    /\ attempt = 0
    /\ last_error = None
    /\ ret = None
    /\ attempts = << >>
    /\ sleeps = << >>
    /\ outcomes = << >>
    /\ logger = "emit"
    /\ logged = 0

Next ==
    \/ Import
    \/ Enter_create_merged_image
    \/ FetchCell
    \/ ForAttempt /\ pc = "call" /\ UNCHANGED mainVars
    \/ TrySuccess /\ pc = "call" /\ UNCHANGED mainVars
    \/ TryFail /\ pc = "call" /\ UNCHANGED mainVars
    \/ Backoff /\ pc = "call" /\ UNCHANGED mainVars
    \/ Exhausted /\ pc = "call" /\ UNCHANGED mainVars
    \/ PlaceTile
    \/ Uncaught
    \/ RecordFailure
    \/ Return_create_merged_image
    \/ UpscaleRaises
    \/ Enter_save_image
    \/ SaveMkdir
    \/ SaveToday
    \/ SaveWrite
    \/ SaveError
    \/ MainNoImage
    \/ MainAfterSave
    \/ Exit

Spec == Init /\ [][Next]_vars

\* The script is one thread of blocking calls: given that every request and
\* every sleep returns, whatever step is possible is eventually taken.
LiveSpec == Spec /\ WF_vars(Next)

\* ------------------------------------------- a direct call (FetchSpec)
DirectCall(loggers) ==
    /\ pc = "direct"
    /\ logger \in loggers
    /\ env = [set |-> FALSE, valid |-> TRUE, value |-> 0]
    /\ row = 0 /\ col = 0
    /\ merged_image = None
    /\ failed_tiles = << >>
    /\ successful_tiles = 0
    /\ result = None
    /\ now = 0
    /\ today = 0
    /\ saved_path = None
    /\ files = {}
    /\ main_ret = "unset"
    /\ exit_code = -1
    /\ saves = 0
    /\ \E u \in {TILE_URLS[1][1], TILE_URLS[2][3]}, r \in 0..MaxRetries, b \in Backoffs :
          /\ calls = << u >>
          /\ dpc = "for"
          /\ url = u
          /\ retries = r
          /\ backoff_seconds = b
          /\ attempt = 0
          /\ last_error = None
          /\ ret = None
          /\ attempts = << >>
          /\ sleeps = << >>
          /\ outcomes = << >>
          /\ logged = 0

\* The logger of lines 17-21: handlers of the logging module swallow their own
\* errors, so a record is emitted, or dropped by the level.
FetchInit == DirectCall({"emit", "noop"})

FetchNext ==
    \/ ForAttempt /\ UNCHANGED mainVars
    \/ TrySuccess /\ UNCHANGED mainVars
    \/ TryFail /\ UNCHANGED mainVars
    \/ Backoff /\ UNCHANGED mainVars
    \/ Exhausted /\ UNCHANGED mainVars

FetchSpec == FetchInit /\ [][FetchNext]_vars

\* ------------------------------------------------------------------
\* download_image called directly with any logger installed on the module's
\* `logger` (line 21), one whose handlers raise included.
Loggers == {"emit", "noop", "failing"}

LogInit == DirectCall(Loggers)

LogNext ==
    \/ ForAttempt /\ UNCHANGED mainVars
    \/ TrySuccess /\ UNCHANGED mainVars
    \/ TryFail /\ UNCHANGED mainVars
    \/ Backoff /\ UNCHANGED mainVars
    \/ Exhausted /\ UNCHANGED mainVars
    \/ LoggerRaises /\ UNCHANGED mainVars

LogSpec == LogInit /\ [][LogNext]_vars

\* ============================================================ claims
\* The grid's URLs in row-major order.
RowMajor ==
    [i \in 1..TOTAL_TILES |->
        TILE_URLS[((i - 1) \div GRID_COLS) + 1][((i - 1) % GRID_COLS) + 1]]

\* The cells whose tile has been handled by the loop so far.
CellsDone == IF pc = "call" THEN Len(calls) - 1 ELSE Len(calls)

\* create_merged_image has returned to main.
AfterAssembly ==
    pc \in {"merged", "save_mkdir", "save_today", "save_write", "saved", "exit", "done"}

\* The URLs of s at the positions where flag says "fail", in order.
RECURSIVE FailedOf(_, _, _)
FailedOf(s, flag, n) ==
    IF n = 0 THEN << >>
    ELSE IF flag[n] = "fail" THEN Append(FailedOf(s, flag, n - 1), s[n])
    ELSE FailedOf(s, flag, n - 1)

\* C1: all-or-nothing.  Once a cell's fetch has ended in failure,
\* create_merged_image returns nothing but None, save_image is never called,
\* no file is written, main does not return True and the exit code is not 0;
\* and an image that is returned to main holds a tile of every cell.
C1_AllOrNothing ==
    /\ (\E i \in 1..Len(outcomes) : outcomes[i] = "fail") =>
          /\ result = None
          /\ saves = 0
          /\ files = {}
          /\ pc \notin {"save_mkdir", "save_today", "save_write", "saved"}
          /\ main_ret # "True"
          /\ exit_code # 0
    /\ result # None =>
          /\ { b.src : b \in result.boxes } = { RowMajor[i] : i \in 1..TOTAL_TILES }
          /\ \A i \in 1..Len(outcomes) : outcomes[i] = "ok"

\* A run that fetched some tiles, failed on another, and ended with exit code 1.
C1_Witness ==
    /\ pc = "done"
    /\ successful_tiles > 0
    /\ Len(failed_tiles) > 0
    /\ result = None
    /\ exit_code = 1

\* C2: no early abort.  download_image is called once per cell, in row-major
\* order: the calls made so far are a prefix of the row-major list of URLs,
\* exactly one call is made for each cell the loop has reached, attempts are
\* made only inside the one call in progress and for its URL, the loop ends
\* only when every cell has been called (after a failure too, the next step
\* is the next cell's call), and when create_merged_image has returned every
\* cell has been called, whatever the outcomes were.
C2_NoEarlyAbort ==
    /\ Len(calls) <= TOTAL_TILES
    /\ \A i \in 1..Len(calls) : calls[i] = RowMajor[i]
    /\ pc \in {"loop", "call"} => CellsDone = (row * GRID_COLS) + col
    /\ pc = "loop" => (LoopDone <=> Len(calls) = TOTAL_TILES)
    /\ pc = "call" => url = calls[Len(calls)] /\ Len(outcomes) \in {CellsDone, CellsDone + 1}
    /\ pc # "call" => dpc = "idle" /\ attempts = << >>
    /\ pc \notin {"call", "crashed"} => Len(outcomes) = Len(calls)
    /\ AfterAssembly => calls = RowMajor

\* The first cell failed and the loop still went on to call all six cells.
C2_Witness ==
    /\ pc = "merged"
    /\ Len(failed_tiles) > 0
    /\ outcomes[1] = "fail"
    /\ calls = RowMajor

\* C3: the failure list is complete and exact.  Between two cells and after
\* the loop, failed_tiles is the list of the URLs whose download_image call
\* returned None, one entry per such call, in call order.
C3_FailureListExact ==
    pc # "call" /\ pc # "crashed" =>
        failed_tiles = FailedOf(calls, outcomes, Len(calls))

\* Only the fifth cell failed, and the list is exactly its URL.
C3_Witness ==
    /\ pc = "merged"
    /\ outcomes = << "ok", "ok", "ok", "ok", "fail", "ok" >>
    /\ failed_tiles = << TILE_URLS[2][2] >>

\* Every request of the call in progress raised.
AllAttemptsFailed == \A i \in 1..Len(attempts) : attempts[i] = "error"

\* C4: retry bound.  A call never makes more than `retries` requests; with
\* retries >= 1, a call all of whose requests raised has left the loop only
\* after exactly `retries` requests, and then returns None.
C4_RetryBound ==
    /\ Len(attempts) <= retries
    /\ (retries >= 1 /\ AllAttemptsFailed /\ dpc \in {"exhausted", "returned"}) =>
          Len(attempts) = retries
    /\ (retries >= 1 /\ AllAttemptsFailed /\ dpc = "returned") => ret = None

\* retries = 3: three failed requests, then None.
C4_Witness ==
    /\ dpc = "returned"
    /\ retries = 3
    /\ attempts = << "error", "error", "error" >>
    /\ ret = None

\* C5: linear backoff.  The k-th sleep of a call lasts backoff_seconds * k;
\* attempt k + 1 starts after exactly k sleeps; a failed attempt k < retries is
\* followed by one sleep and the final one by none, so an exhausted call has
\* slept retries - 1 times; the durations are strictly increasing.
C5_LinearBackoff ==
    /\ \A k \in 1..Len(sleeps) : sleeps[k] = backoff_seconds * k
    /\ \A j, k \in 1..Len(sleeps) : j < k => sleeps[j] < sleeps[k]
    /\ dpc \in {"try", "caught"} => Len(sleeps) = attempt - 1
    /\ (dpc = "for" /\ attempt >= 1) =>
          Len(sleeps) = (IF attempt < retries THEN attempt ELSE retries - 1)
    /\ (dpc = "exhausted" /\ retries >= 1) => Len(sleeps) = retries - 1
    /\ (dpc = "returned" /\ AllAttemptsFailed /\ retries >= 1) =>
          Len(sleeps) = retries - 1

\* retries = 4, base 1.5 s, every attempt fails: the sleeps are 1.5, 3, 4.5 s.
C5_Witness ==
    /\ dpc = "returned"
    /\ ret = None
    /\ retries = 4
    /\ backoff_seconds = DefaultBackoff
    /\ sleeps = << 1500, 3000, 4500 >>

\* C6: success stops retrying.  A successful request is the last request of
\* its call: the call has returned, it returned an image, and it slept only
\* before that request (once per earlier, failed, request); a call that
\* returned an image ends with a successful request.
C6_SuccessStops ==
    /\ \A i \in 1..Len(attempts) :
          attempts[i] = "ok" =>
             /\ i = Len(attempts)
             /\ i = attempt
             /\ i <= retries
             /\ dpc = "returned"
             /\ ret # None
             /\ ret.type = "Image"
             /\ Len(sleeps) = i - 1
    /\ (dpc = "returned" /\ ret # None) =>
          Len(attempts) >= 1 /\ attempts[Len(attempts)] = "ok"

\* The first success comes at the third attempt: an image, after two sleeps.
C6_Witness ==
    /\ dpc = "returned"
    /\ ret # None
    /\ attempts = << "error", "error", "ok" >>
    /\ Len(sleeps) = 2

\* C7: failure is a value, uniformly retried.  No exception leaves
\* download_image; what it returns is an image or None; an error of any kind
\* is caught, is the error of the one request just made (one attempt
\* consumed), and while attempts remain it is followed by the next attempt,
\* whatever its kind.
C7_FailureIsValue ==
    /\ dpc # "raised"
    /\ dpc = "returned" => (ret = None \/ ret.type = "Image")
    /\ dpc = "caught" =>
          /\ last_error # None
          /\ last_error.type \in ErrorKinds
          /\ last_error.attempt = attempt
          /\ Len(attempts) = attempt
          /\ attempts[attempt] = "error"
    /\ (dpc = "try" /\ attempt > 1) =>
          /\ last_error # None
          /\ last_error.attempt = attempt - 1
          /\ Len(attempts) = attempt - 1

\* An undecodable body at attempt 2 was caught and attempt 3 is under way.
C7_Witness ==
    /\ dpc = "try"
    /\ attempt = 3
    /\ last_error = [type |-> "UnidentifiedImageError", attempt |-> 2]

\* Every cell's download_image call returned an image.
AllFetched ==
    /\ Len(outcomes) = TOTAL_TILES
    /\ \A i \in 1..TOTAL_TILES : outcomes[i] = "ok"

\* C8: exit code.  The process ends with exit code 0 exactly when every cell
\* was fetched and save_image returned a path; when a tile failed or
\* save_image returned None, main returns False and the exit code is 1; a
\* path is returned only for a file that was written.
C8_ExitCode ==
    /\ pc \in {"done", "crashed"} =>
          /\ exit_code \in {0, 1}
          /\ exit_code = 0 <=> (AllFetched /\ saves = 1 /\ saved_path # None)
    /\ pc \notin {"done", "crashed"} => exit_code = -1
    /\ pc = "done" => (exit_code = 0 <=> main_ret = "True")
    /\ (pc = "done" /\ (~AllFetched \/ saved_path = None)) =>
          main_ret = "False" /\ exit_code = 1
    /\ saved_path # None => saved_path \in files

\* Every tile was fetched, the save failed, and the exit code is 1.
C8_Witness ==
    /\ pc = "done"
    /\ AllFetched
    /\ saves = 1
    /\ saved_path = None
    /\ main_ret = "False"
    /\ exit_code = 1

\* C9: output size.  With a positive SCALE_FACTOR, an image returned by
\* create_merged_image (only returned when every fetch succeeded) has size
\* (cols * tileSize * scale, rows * tileSize * scale); with SCALE_FACTOR = 1
\* it is the canvas itself, unscaled.
C9_OutputSize ==
    (result # None /\ SCALE_FACTOR >= 1) =>
        /\ AllFetched
        /\ result.size = << GRID_COLS * TILE_SIZE * SCALE_FACTOR,
                            GRID_ROWS * TILE_SIZE * SCALE_FACTOR >>
        /\ SCALE_FACTOR = 1 =>
              /\ result = merged_image
              /\ result.size = << GRID_COLS * TILE_SIZE, GRID_ROWS * TILE_SIZE >>

\* SCALE_FACTOR = 3: the 3000 x 2000 canvas comes back as 9000 x 6000.
C9_Witness ==
    /\ result # None
    /\ env = [set |-> TRUE, valid |-> TRUE, value |-> 3]
    /\ result.size = << 9000, 6000 >>

\* The zero-based cell of a URL, and the block of a cell.
CellOf(u) ==
    CHOOSE rc \in (0..(GRID_ROWS - 1)) \X (0..(GRID_COLS - 1)) :
        TILE_URLS[rc[1] + 1][rc[2] + 1] = u
CellBlock(r, c) ==
    << c * TILE_SIZE, r * TILE_SIZE, (c + 1) * TILE_SIZE, (r + 1) * TILE_SIZE >>
BoxesDisjoint(a, b) ==
    a[3] <= b[1] \/ b[3] <= a[1] \/ a[4] <= b[2] \/ b[4] <= a[2]
BoxInside(b, size) ==
    /\ 0 <= b[1] /\ b[1] < b[3] /\ b[3] <= size[1]
    /\ 0 <= b[2] /\ b[2] < b[4] /\ b[4] <= size[2]
BoxArea(b) == (b[3] - b[1]) * (b[4] - b[2])
RECURSIVE TotalArea(_)
TotalArea(bs) ==
    IF bs = {} THEN 0
    ELSE LET b == CHOOSE x \in bs : TRUE
         IN  BoxArea(b.box) + TotalArea(bs \ {b})

\* The URLs among the first n calls whose call returned an image.
FetchedOf(n) == { calls[i] : i \in { j \in 1..n : outcomes[j] = "ok" } }

\* C10: placement.  Every region pasted into the canvas is exactly the
\* tileSize x tileSize block of its tile's cell, with top-left corner
\* (col * tileSize, row * tileSize); the regions of two tiles are disjoint and
\* inside the canvas; between two cells the pasted tiles are those fetched so
\* far, one region each; and when all cells succeeded the regions cover the
\* whole canvas.
C10_Placement ==
    merged_image # None =>
        /\ \A b \in merged_image.boxes :
              /\ b.box = CellBlock(CellOf(b.src)[1], CellOf(b.src)[2])
              /\ b.box[1] = CellOf(b.src)[2] * TILE_SIZE
              /\ b.box[2] = CellOf(b.src)[1] * TILE_SIZE
              /\ b.box[3] - b.box[1] = TILE_SIZE
              /\ b.box[4] - b.box[2] = TILE_SIZE
              /\ BoxInside(b.box, merged_image.size)
        /\ \A a, b \in merged_image.boxes : a # b => BoxesDisjoint(a.box, b.box)
        /\ Cardinality(merged_image.boxes) = successful_tiles
        /\ pc \notin {"call", "crashed"} =>
              { b.src : b \in merged_image.boxes } = FetchedOf(Len(calls))
        /\ successful_tiles = TOTAL_TILES =>
              TotalArea(merged_image.boxes) = merged_image.size[1] * merged_image.size[2]

\* All six tiles were fetched and pasted.
C10_Witness ==
    /\ pc = "merged"
    /\ successful_tiles = TOTAL_TILES
    /\ Cardinality(merged_image.boxes) = TOTAL_TILES
    /\ [src |-> TILE_URLS[2][3], box |-> << 2000, 1000, 3000, 2000 >>] \in merged_image.boxes

\* C11: a failed cell leaves the canvas untouched.  The step that handles a
\* None from download_image changes neither the canvas nor the success
\* counter and appends that URL to failed_tiles; and for the rest of the run
\* nothing is pasted for a failed URL or into its cell's block, which so
\* keeps the transparent content Image.new gave it.
C11_FailedCellUntouched ==
    /\ [][(pc = "call" /\ dpc = "returned" /\ ret = None) =>
             /\ merged_image' = merged_image
             /\ successful_tiles' = successful_tiles
             /\ failed_tiles' = Append(failed_tiles, url)]_vars
    /\ [](merged_image # None =>
             \A i \in 1..Len(failed_tiles) :
                \A b \in merged_image.boxes :
                   /\ b.src # failed_tiles[i]
                   /\ BoxesDisjoint(b.box,
                         CellBlock(CellOf(failed_tiles[i])[1], CellOf(failed_tiles[i])[2])))

\* The second cell failed, the other five were pasted around it.
C11_Witness ==
    /\ pc = "merged"
    /\ failed_tiles = << TILE_URLS[1][2] >>
    /\ successful_tiles = TOTAL_TILES - 1
    /\ Cardinality(merged_image.boxes) = TOTAL_TILES - 1

\* The number of download_image calls among the first n that returned an image.
OkCount(n) == Cardinality({ j \in 1..n : outcomes[j] = "ok" })

\* C12: normalization never rejects.  The tile handed to paste is always
\* tileSize x tileSize RGBA; once the loop has dealt with a call that returned
\* an image, that tile is pasted and counted, whatever its native size and
\* mode; and no URL whose call returned an image is in failed_tiles.
C12_NormalizationNeverRejects ==
    /\ (pc = "call" /\ dpc = "returned" /\ ret # None) =>
          /\ Normalized(ret).size = << TILE_SIZE, TILE_SIZE >>
          /\ Normalized(ret).mode = "RGBA"
    /\ (pc # "call" /\ merged_image # None) =>
          /\ { b.src : b \in merged_image.boxes } = FetchedOf(Len(outcomes))
          /\ successful_tiles = OkCount(Len(outcomes))
    /\ \A i \in 1..Len(failed_tiles) : failed_tiles[i] \notin FetchedOf(Len(outcomes))

\* C13: every error reaches the driver as a value.  No exception leaves
\* download_image, create_merged_image, save_image or main (the process dies
\* of an exception only before main is entered, at module level), and a run
\* in which a fetch failed or the save failed ends with main returning False.
C13_ErrorsAreValues ==
    /\ dpc # "raised"
    /\ pc = "crashed" => merged_image = None
    /\ (pc \in {"exit", "done"} /\ (failed_tiles # << >> \/ saved_path = None)) =>
          main_ret = "False"

\* The positions of the failed requests of the call in progress.
FailedAttempts == { i \in 1..Len(attempts) : attempts[i] = "error" }

\* C14: last error remembered.  During a download_image call last_error is
\* None while no request has raised, and otherwise the error raised by the
\* latest failed request; a call with retries >= 1 that ends in failure
\* reports (line 82) the error of its final, retries-th, request.
C14_LastErrorRemembered ==
    /\ FailedAttempts = {} => last_error = None
    /\ FailedAttempts # {} =>
          /\ last_error # None
          /\ last_error.type \in ErrorKinds
          /\ last_error.attempt \in FailedAttempts
          /\ \A i \in FailedAttempts : i <= last_error.attempt
    /\ (dpc \in {"exhausted", "returned"} /\ retries >= 1 /\ AllAttemptsFailed) =>
          /\ last_error # None
          /\ last_error.attempt = retries

\* Three attempts, three errors: the one reported is the third attempt's.
C14_Witness ==
    /\ dpc = "exhausted"
    /\ retries = 3
    /\ attempts = << "error", "error", "error" >>
    /\ last_error = [type |-> "HTTPError", attempt |-> 3]

\* The budgets of a run: at most one download_image call per cell, each of at
\* most DefaultRetries requests (so at most rows * cols * maxAttempts requests
\* in all), and at most one save_image call.
AttemptBudget ==
    /\ Len(calls) <= TOTAL_TILES
    /\ Len(attempts) <= DefaultRetries
    /\ pc = "call" => retries = DefaultRetries
    /\ (CellsDone * DefaultRetries) + Len(attempts) <= TOTAL_TILES * DefaultRetries
    /\ saves <= 1

\* Every run that enters main comes to an end, one way or the other.
RunEnds == (pc = "main") ~> (pc \in {"done", "crashed"})

\* C15: termination.  Within the budgets, every run that enters main reaches
\* the point where main has returned True or False.
C15_Termination ==
    /\ []AttemptBudget
    /\ (pc = "main") ~> (main_ret \in {"True", "False"})
\* The position of the first "ok" in a sequence of attempt outcomes, 0 if none.
FirstOk(s) ==
    IF \E i \in 1..Len(s) : s[i] = "ok"
      THEN CHOOSE i \in 1..Len(s) : s[i] = "ok" /\ \A j \in 1..(i - 1) : s[j] # "ok"
      ELSE 0

\* C16: logging is observability-only.  Whatever the logger does (emit, drop,
\* raise), a download_image call's attempts, sleeps and result are the function
\* of the network/decode outcomes it sees: a logger call never consumes a loop
\* iteration (the loop counter equals the requests made), no error of the
\* logger leaves the call, the call stops at the first "ok" outcome and returns
\* its image, and it sleeps b*k after the k-th failed request.
C16_LoggingObservabilityOnly ==
    /\ dpc # "raised"
    /\ dpc \in {"caught", "returned", "exhausted"} => Len(attempts) = attempt
    /\ dpc = "for" => Len(attempts) = attempt
    /\ FirstOk(attempts) \in {0, Len(attempts)}
    /\ FirstOk(attempts) # 0 => dpc = "returned" /\ ret # None
    /\ dpc = "returned" =>
          /\ (ret # None) <=> (FirstOk(attempts) # 0)
          /\ ret = None => Len(attempts) = retries
          /\ sleeps = [k \in 1..(IF ret # None THEN Len(attempts) - 1
                                                ELSE Max(retries - 1, 0)) |->
                          SleepSeconds(backoff_seconds, k)]

\* C17: the counters add up.  While the cell loop runs, successful_tiles +
\* len(failed_tiles) is the number of cells processed so far; once the loop is
\* over the sum is TOTAL_TILES, and create_merged_image has returned the canvas
\* if and only if successful_tiles = TOTAL_TILES.
C17_CountersAddUp ==
    /\ pc \in {"loop", "call"} => successful_tiles + Len(failed_tiles) = CellsDone
    /\ (pc = "loop" /\ LoopDone) => successful_tiles + Len(failed_tiles) = TOTAL_TILES
    /\ AfterAssembly =>
          /\ successful_tiles + Len(failed_tiles) = TOTAL_TILES
          /\ (result # None) <=> (successful_tiles = TOTAL_TILES)

\* Four tiles placed, two failed, the loop over and None returned.
C17_Witness ==
    /\ pc = "merged"
    /\ successful_tiles = 4
    /\ Len(failed_tiles) = 2
    /\ result = None

\* C18: every cell has its own retry budget.  Each call from the cell loop
\* starts before attempt 1 with retries = 5, backoff 1.5 s and no attempt or
\* sleep behind it, whatever earlier cells used; its first attempt is number
\* 1, its first sleep is base*1 and it may spend the full budget; and the URLs
\* handed to download_image are the grid's cells in order, none twice.
C18_PerTileBudget ==
    /\ [][(pc = "loop" /\ pc' = "call") =>
             /\ attempt' = 0
             /\ retries' = DefaultRetries
             /\ backoff_seconds' = DefaultBackoff
             /\ attempts' = << >>
             /\ sleeps' = << >>
             /\ last_error' = None]_vars
    /\ [](pc = "call" =>
             /\ retries = DefaultRetries
             /\ (dpc = "try" /\ attempts = << >>) => attempt = 1
             /\ sleeps # << >> => sleeps[1] = DefaultBackoff * 1
             /\ dpc = "exhausted" => Len(attempts) = DefaultRetries)
    /\ [](/\ Len(calls) <= TOTAL_TILES
          /\ \A i \in 1..Len(calls) : calls[i] = RowMajor[i]
          /\ \A i, j \in 1..Len(calls) : i # j => calls[i] # calls[j])

\* The first cell spent all five attempts and failed; the second cell still
\* got, and spent, five attempts of its own.
C18_Witness ==
    /\ pc = "call"
    /\ Len(calls) = 2
    /\ outcomes = << "fail" >>
    /\ dpc = "exhausted"
    /\ Len(attempts) = DefaultRetries
    /\ Len(sleeps) = DefaultRetries - 1

\* C19: the date folder and the file name agree.  For every file save_image
\* writes, whenever it runs and however the clock advances between its steps,
\* the YYYYMMDD folder equals the YYYYMMDD prefix of the file's timestamp.
C19_DatePartition ==
    /\ \A f \in files : f.folder = f.stamp[1]
    /\ saved_path # None => saved_path.folder = saved_path.stamp[1]

====
